---------------------------- MODULE Spec2Model ----------------------------
(***************************************************************************)
(* A model of src/server.js: the text scorer (normalize, levenshtein,      *)
(* buildTips, simpleTextScore), the retrying transcription call            *)
(* (transcribeWithRetryMem) and the /speech/score request handler.         *)
(*                                                                         *)
(* The file holds two versions of the server, one calling the provider     *)
(* with fetch (lines 1-311) and one with the OpenAI client (lines          *)
(* 313-551); the scorer is the same in both and the retry loop has the     *)
(* same shape.  The model follows the first.                               *)
(*                                                                         *)
(* A JavaScript string is a sequence of one-character strings.  A          *)
(* JavaScript value that may be undefined is a record [type, val].         *)
(***************************************************************************)
EXTENDS Integers, Sequences, FiniteSets, TLC

(***************************************************************************)
(* Bounds of the model.                                                    *)
(***************************************************************************)
\* longest raw string given to normalize in NormSpec
MaxNormLen == 3
\* longest string given to levenshtein in LevSpec
MaxLevLen == 3
\* longest raw reference / hypothesis given to simpleTextScore in ScoreSpec
MaxRefLen == 4
MaxHypLen == 3
\* number of /speech/score requests served concurrently
MaxRequests == 2
\* largest tries given to transcribeWithRetryMem in RetrySpec
MaxTries == 3

(***************************************************************************)
(* Characters.  The classes are those the regular expressions of           *)
(* normalize and buildTips distinguish.                                    *)
(***************************************************************************)
LowerLetters == {"a", "t"}
UpperLetters == {"A", "T"}
Digits == {"1"}
Apostrophe == {"'"}
Space == {" "}
\* \s characters other than the space
OtherWhitespace == {"\t"}
\* everything else: punctuation, symbols
Symbols == {"!"}

Chars ==
    LowerLetters \cup UpperLetters \cup Digits \cup Apostrophe \cup Space
        \cup OtherWhitespace \cup Symbols

\* the class [a-z0-9' ] of normalize's first replace
AllowedChars == LowerLetters \cup Digits \cup Apostrophe \cup Space
\* the class \s of normalize's second replace
WhitespaceChars == Space \cup OtherWhitespace
\* the class \w, on which \b of buildTips' patterns rests
WordChars == LowerLetters \cup UpperLetters \cup Digits

\* all strings over alphabet A of length at most n
StringsUpTo(A, n) == UNION {[1..k -> A] : k \in 0..n}

(***************************************************************************)
(* JavaScript values: undefined/null, or a string.                         *)
(***************************************************************************)
Undefined == [type |-> "undefined", val |-> <<>>]
Str(s) == [type |-> "string", val |-> s]

\* (v || ""): the string itself when v is a non-empty string, "" otherwise
OrEmpty(v) == IF v.type = "string" /\ v.val # <<>> THEN v.val ELSE <<>>

(***************************************************************************)
(* normalize                                                               *)
(***************************************************************************)
LowerOf(c) ==
    CASE c = "A" -> "a"
      [] c = "T" -> "t"
      [] OTHER -> c

\* String.prototype.toLowerCase
ToLowerCase(s) == [i \in 1..Len(s) |-> LowerOf(s[i])]

\* s.replace(/[C]+/g, " "): every maximal run of characters of class C
\* becomes one space
ReplaceRuns(s, C) ==
    LET f[i \in 0..Len(s)] ==
            IF i = 0 THEN <<>>
            ELSE IF s[i] \notin C THEN Append(f[i - 1], s[i])
            ELSE IF i > 1 /\ s[i - 1] \in C THEN f[i - 1]
            ELSE Append(f[i - 1], " ")
    IN  f[Len(s)]

\* String.prototype.trim
Trim(s) ==
    LET keep == {i \in 1..Len(s) : s[i] \notin WhitespaceChars}
    IN  IF keep = {} THEN <<>>
        ELSE LET lo == CHOOSE i \in keep : \A k \in keep : i <= k
                 hi == CHOOSE i \in keep : \A k \in keep : i >= k
             IN  SubSeq(s, lo, hi)

\* normalize with the trim done first instead of last
NormalizeTrimFirst(v) ==
    ReplaceRuns(
        ReplaceRuns(Trim(ToLowerCase(OrEmpty(v))), Chars \ AllowedChars),
        WhitespaceChars)

normalize(v) ==
    Trim(ReplaceRuns(
        ReplaceRuns(ToLowerCase(OrEmpty(v)), Chars \ AllowedChars),
        WhitespaceChars))

(***************************************************************************)
(* levenshtein.  The table is filled row by row, each cell from the three  *)
(* cells the code reads; a row is the sequence dp[i][0..n].                *)
(***************************************************************************)
Min2(x, y) == IF x <= y THEN x ELSE y

\* Math.min of the first two numbers only
Min3NoSubstitution(x, y, z) == Min2(x, y)

\* Math.min of three numbers
Min3(x, y, z) == Min2(x, Min2(y, z))

\* a substitution cost that ignores the two characters
CostAlwaysOne(x, y) == IF x = y THEN 1 ELSE 1

\* a[i - 1] === b[j - 1] ? 0 : 1
Cost(x, y) == IF x = y THEN 0 ELSE 1

\* the loop over j for one i: cur holds dp[i][0 .. Len(cur) - 1]
RECURSIVE FillCells(_, _, _, _, _)
FillCells(a, b, i, prev, cur) ==
    IF Len(cur) = Len(b) + 1 THEN cur
    ELSE LET j == Len(cur)
         IN  FillCells(a, b, i, prev,
                 Append(cur, Min3(prev[j + 1] + 1,
                                  cur[j] + 1,
                                  prev[j] + Cost(a[i], b[j]))))

\* the loop over i: prev is row i - 1; dp[i][0] = i
RECURSIVE FillRows(_, _, _, _)
FillRows(a, b, i, prev) ==
    IF i > Len(a) THEN prev
    ELSE FillRows(a, b, i + 1, FillCells(a, b, i, prev, <<i>>))

\* dp[0][j] = j, then the rows, then dp[m][n]
levenshtein(a, b) ==
    FillRows(a, b, 1, [j \in 1..(Len(b) + 1) |-> j - 1])[Len(b) + 1]

(***************************************************************************)
(* buildTips                                                               *)
(***************************************************************************)
TipReadToEnd == "read the sentence through to the end"
TipArticle == "pronounce the articles a/an/the clearly"
TipPreposition == "do not drop prepositions to/for/of"
TipGeneric == "practise natural stress and phrasing"

Articles == {<<"a">>, <<"a", "n">>, <<"t", "h", "e">>}
Prepositions ==
    {<<"t", "o">>, <<"f", "o", "r">>, <<"o", "f">>, <<"i", "n">>,
     <<"o", "n">>, <<"a", "t">>}

\* /\b(w1|w2|...)\b/.test(s): some occurrence of a word of W with a word
\* boundary on both sides
RegexWordTest(W, s) ==
    \E i \in 1..Len(s) : \E j \in i..Len(s) :
        /\ SubSeq(s, i, j) \in W
        /\ (i = 1 \/ s[i - 1] \notin WordChars)
        /\ (j = Len(s) \/ s[j + 1] \notin WordChars)

\* hyp.length < ref.length * 0.7 (the double product and the exact one
\* compare alike with an integer for every ref.length below 2000)
TooShort(ref, hyp) == 10 * Len(hyp) < 7 * Len(ref)

\* tips.slice(0, 3)
Slice3(tips) == SubSeq(tips, 1, Min2(Len(tips), 3))

\* the fallback rule without its guard
FallbackAlways(tips) == Append(tips, TipGeneric)

\* if (tips.length === 0) tips.push(generic)
Fallback(tips) == IF Len(tips) = 0 THEN Append(tips, TipGeneric) ELSE tips

buildTips(ref, hyp) ==
    LET t1 == IF TooShort(ref, hyp) THEN <<TipReadToEnd>> ELSE <<>>
        t2 == IF RegexWordTest(Articles, ref) /\ ~RegexWordTest(Articles, hyp)
              THEN Append(t1, TipArticle) ELSE t1
        t3 == IF RegexWordTest(Prepositions, ref)
                    /\ ~RegexWordTest(Prepositions, hyp)
              THEN Append(t2, TipPreposition) ELSE t2
    IN  Slice3(Fallback(t3))

(***************************************************************************)
(* simpleTextScore                                                         *)
(***************************************************************************)
Max2(x, y) == IF x >= y THEN x ELSE y

\* the percentage with the division by den forgotten
RoundPercentNoDivide(num, den) == 100 * num

\* Math.round(x * 100) for the rational x = num / den, den > 0: the nearest
\* integer, a half rounded up.  (The double (1 - dist / maxLen) * 100 rounds
\* to the same integer for every maxLen below 40.)
RoundPercent(num, den) ==
    LET t == 200 * num + den
    IN  IF t >= 0 THEN t \div (2 * den) ELSE -((-t + 2 * den - 1) \div (2 * den))

\* the reference's length alone, || 1
MaxLenRefOnly(ref, hyp) == IF Len(ref) = 0 THEN 1 ELSE Len(ref)

\* Math.max(ref.length, hyp.length) || 1
MaxLenOf(ref, hyp) ==
    IF Max2(Len(ref), Len(hyp)) = 0 THEN 1 ELSE Max2(Len(ref), Len(hyp))

\* the locals of one call, with the returned accuracy and tips
simpleTextScore(reference, hypothesis) ==
    LET ref == normalize(reference)
        hyp == normalize(Str(OrEmpty(hypothesis)))
        dist == levenshtein(ref, hyp)
        maxLen == MaxLenOf(ref, hyp)
    IN  [ref |-> ref, hyp |-> hyp, dist |-> dist, maxLen |-> maxLen,
         accuracy |-> Max2(0, RoundPercent(maxLen - dist, maxLen)),
         tips |-> buildTips(ref, hyp)]

(***************************************************************************)
(* State.                                                                  *)
(*                                                                         *)
(* The scorer's functions are applied by a caller to inputs drawn at the   *)
(* start: reference and hypothesis hold the arguments, called the function *)
(* applied so far, ret what it returned.                                   *)
(*                                                                         *)
(* The server: clients are the requests that will be sent, keyPresent is   *)
(* process.env.OPENAI_API_KEY being set, tries the third argument of       *)
(* transcribeWithRetryMem.  Per request: req the                           *)
(* request as received, pc the await at which its handler is suspended,    *)
(* targetSentence, attempt and lastErr the locals of the handler and of    *)
(* transcribeWithRetryMem, promise the settled result of the latter,       *)
(* responses what was sent on res.  The provider's side: calls the number  *)
(* of transcription calls started for the request, pending those not yet   *)
(* finished, outcome how the latest one ended, provided the text of the    *)
(* latest reply that carried one.  scorerArgs records the invocations of   *)
(* simpleTextScore.                                                        *)
(***************************************************************************)
VARIABLES reference, hypothesis, called, ret

VARIABLES clients, keyPresent, tries, req, pc, targetSentence, attempt, lastErr,
          promise, responses, calls, pending, outcome, provided, scorerArgs

callerVars == <<reference, hypothesis, called, ret>>

serverVars ==
    <<clients, keyPresent, tries, req, pc, targetSentence, attempt, lastErr, promise,
      responses, calls, pending, outcome, provided, scorerArgs>>

vars == <<callerVars, serverVars>>

Requests == 1..MaxRequests

\* the 3 both endpoints pass as tries
ScoreTries == 3

NoReq == [hasFile |-> FALSE, target |-> Undefined]
NoErr == [attempt |-> 0, kind |-> "none"]
Unsettled == [state |-> "pending", value |-> Undefined, error |-> NoErr]

CallerIdle ==
    /\ reference = Undefined
    /\ hypothesis = Undefined
    /\ called = "none"
    /\ ret = <<>>

\* no request received yet
ServerIdle ==
    /\ req = [r \in Requests |-> NoReq]
    /\ pc = [r \in Requests |-> "none"]
    /\ targetSentence = [r \in Requests |-> Undefined]
    /\ attempt = [r \in Requests |-> 0]
    /\ lastErr = [r \in Requests |-> NoErr]
    /\ promise = [r \in Requests |-> Unsettled]
    /\ responses = [r \in Requests |-> <<>>]
    /\ calls = [r \in Requests |-> 0]
    /\ pending = [r \in Requests |-> 0]
    /\ outcome = [r \in Requests |-> "none"]
    /\ provided = [r \in Requests |-> Undefined]
    /\ scorerArgs = [r \in Requests |-> <<>>]

\* the server takes no step in the specifications of the scorer's functions
ServerOff ==
    /\ clients = {}
    /\ keyPresent = TRUE
    /\ tries = ScoreTries
    /\ ServerIdle

(***************************************************************************)
(* NormSpec: normalize applied to a raw string or undefined, then to its   *)
(* own output.                                                             *)
(***************************************************************************)
NormInputs == {Undefined} \cup {Str(s) : s \in StringsUpTo(Chars, MaxNormLen)}

NormInit ==
    /\ ServerOff
    /\ reference \in NormInputs
    /\ hypothesis = Undefined
    /\ called = "none"
    /\ ret = <<>>

CallNormalize ==
    /\ called = "none"
    /\ ret' = <<normalize(reference)>>
    /\ called' = "normalize"
    /\ UNCHANGED <<reference, hypothesis, serverVars>>

CallNormalizeAgain ==
    /\ called = "normalize"
    /\ ret' = Append(ret, normalize(Str(ret[1])))
    /\ called' = "normalize twice"
    /\ UNCHANGED <<reference, hypothesis, serverVars>>

NormNext == CallNormalize \/ CallNormalizeAgain

NormSpec == NormInit /\ [][NormNext]_vars

(***************************************************************************)
(* LevSpec: levenshtein applied to two normalized strings.                 *)
(***************************************************************************)
LevChars == {"a", "t", " "}

\* the strings normalize can return, over LevChars
LevInputs ==
    {s \in StringsUpTo(LevChars, MaxLevLen) : normalize(Str(s)) = s}

LevInit ==
    /\ ServerOff
    /\ reference \in {Str(s) : s \in LevInputs}
    /\ hypothesis \in {Str(s) : s \in LevInputs}
    /\ called = "none"
    /\ ret = <<>>

CallLevenshtein ==
    /\ called = "none"
    /\ ret' = levenshtein(reference.val, hypothesis.val)
    /\ called' = "levenshtein"
    /\ UNCHANGED <<reference, hypothesis, serverVars>>

LevNext == CallLevenshtein

LevSpec == LevInit /\ [][LevNext]_vars

(***************************************************************************)
(* ScoreSpec: simpleTextScore applied to a raw reference and a raw or      *)
(* undefined hypothesis.                                                   *)
(***************************************************************************)
ScoreChars == {"a", "t", " ", "!"}

ScoreInit ==
    /\ ServerOff
    /\ reference \in {Str(s) : s \in StringsUpTo(ScoreChars, MaxRefLen)}
    /\ hypothesis \in
         {Undefined} \cup {Str(s) : s \in StringsUpTo(ScoreChars, MaxHypLen)}
    /\ called = "none"
    /\ ret = <<>>

CallSimpleTextScore ==
    /\ called = "none"
    /\ ret' = simpleTextScore(reference, hypothesis)
    /\ called' = "simpleTextScore"
    /\ UNCHANGED <<reference, hypothesis, serverVars>>

ScoreNext == CallSimpleTextScore

ScoreSpec == ScoreInit /\ [][ScoreNext]_vars

(***************************************************************************)
(* The /speech/score handler and transcribeWithRetryMem.  An action is one *)
(* run of a request's code from the event that resumes it to its next      *)
(* await, or to its end.                                                   *)
(***************************************************************************)
\* req.body.target: absent in the odd requests, a sentence in the even ones
RequestTarget(r) == IF r % 2 = 1 THEN Undefined ELSE Str(<<"a", "t">>)

\* what the text of a transcription reply can be: absent, empty, or a string
\* (one of them of white space only)
ProviderTexts ==
    {Undefined, Str(<<>>), Str(<<"a", "t">>), Str(<<" ">>)}

\* the responses of the handler
MissingAudioResponse ==
    [status |-> 400, kind |-> "audio field is required", ok |-> "absent",
     transcript |-> Undefined, accuracy |-> -1, tips |-> <<>>,
     error |-> NoErr]

MissingKeyResponse ==
    [status |-> 500, kind |-> "Server missing OPENAI_API_KEY",
     ok |-> "absent", transcript |-> Undefined, accuracy |-> -1,
     tips |-> <<>>, error |-> NoErr]

\* an ok response that carries the normalized hypothesis
ScoreResponseNormalized(transcript, score) ==
    [status |-> 200, kind |-> "score", ok |-> "true",
     transcript |-> Str(score.hyp), accuracy |-> score.accuracy,
     tips |-> score.tips, error |-> NoErr]

\* res.json({ok: true, transcript, accuracy, tips})
ScoreResponse(transcript, score) ==
    [status |-> 200, kind |-> "score", ok |-> "true",
     transcript |-> transcript, accuracy |-> score.accuracy,
     tips |-> score.tips, error |-> NoErr]

\* res.status(500).json({ok: false, error: {message: err.message, ...}})
FailureResponse(err) ==
    [status |-> 500, kind |-> "failure", ok |-> "false",
     transcript |-> Undefined, accuracy |-> -1, tips |-> <<>>,
     error |-> err]

\* a loop guard that lets one attempt too many through
LoopGoesOnOffByOne(a, n) == a <= n + 1

\* attempt <= tries
LoopGoesOn(a, n) == a <= n

\* a test that misses the empty string
NoTextOnlyIfAbsent(text) == text.type = "undefined"

\* !json.text
NoText(text) == OrEmpty(text) = <<>>

\* the transcript of some other request
TranscriptOfAnother(r) ==
    IF \E q \in Requests : q # r /\ promise[q].state = "resolved"
    THEN promise[CHOOSE q \in Requests :
                     q # r /\ promise[q].state = "resolved"].value
    ELSE promise[r].value

\* const transcript = await transcribeWithRetryMem(...)
TranscriptOf(r) == promise[r].value

\* the handler up to its first await: the two checks, then the first call
Receive(r) ==
    /\ r \in clients
    /\ pc[r] = "none"
    /\ \E f \in BOOLEAN, t \in {RequestTarget(r)} :
        /\ req' = [req EXCEPT ![r] = [hasFile |-> f, target |-> t]]
        /\ IF ~f
           THEN /\ responses' =
                     [responses EXCEPT ![r] = Append(@, MissingAudioResponse)]
                /\ pc' = [pc EXCEPT ![r] = "done"]
                /\ UNCHANGED <<targetSentence, attempt, calls, pending,
                               promise>>
           ELSE IF ~keyPresent
           THEN /\ responses' =
                     [responses EXCEPT ![r] = Append(@, MissingKeyResponse)]
                /\ pc' = [pc EXCEPT ![r] = "done"]
                /\ UNCHANGED <<targetSentence, attempt, calls, pending,
                               promise>>
           ELSE IF LoopGoesOn(1, tries)
           THEN /\ targetSentence' =
                     [targetSentence EXCEPT ![r] = Str(OrEmpty(t))]
                /\ attempt' = [attempt EXCEPT ![r] = 1]
                /\ calls' = [calls EXCEPT ![r] = @ + 1]
                /\ pending' = [pending EXCEPT ![r] = @ + 1]
                /\ pc' = [pc EXCEPT ![r] = "fetch"]
                /\ UNCHANGED <<responses, promise>>
           ELSE \* tries < 1: no attempt is made, the undefined lastErr is
                \* thrown
                /\ targetSentence' =
                     [targetSentence EXCEPT ![r] = Str(OrEmpty(t))]
                /\ promise' = [promise EXCEPT ![r] =
                       [state |-> "rejected", value |-> Undefined,
                        error |-> NoErr]]
                /\ pc' = [pc EXCEPT ![r] = "thrown"]
                /\ UNCHANGED <<attempt, calls, pending, responses>>
    /\ UNCHANGED <<clients, keyPresent, tries, lastErr, outcome, provided,
                   scorerArgs, callerVars>>

\* the catch of transcribeWithRetryMem, up to the await of its timer
Caught(r, kind) ==
    /\ lastErr' = [lastErr EXCEPT ![r] = [attempt |-> attempt[r],
                                          kind |-> kind]]
    /\ outcome' = [outcome EXCEPT ![r] = kind]
    /\ pending' = [pending EXCEPT ![r] = @ - 1]
    /\ pc' = [pc EXCEPT ![r] = "sleep"]

\* await fetch(...) settles: it rejects, or resolves with a response that
\* is not ok, or with one that is
FetchSettles(r) ==
    /\ pc[r] = "fetch"
    /\ \/ Caught(r, "fetch failed")
       \/ /\ pc' = [pc EXCEPT ![r] = "text"]
          /\ UNCHANGED <<lastErr, outcome, pending>>
       \/ /\ pc' = [pc EXCEPT ![r] = "json"]
          /\ UNCHANGED <<lastErr, outcome, pending>>
    /\ UNCHANGED <<clients, keyPresent, tries, req, targetSentence, attempt, promise,
                   responses, calls, provided, scorerArgs, callerVars>>

\* await resp.text() of a response that is not ok settles: it rejects, or
\* the error with the status and the body's text is thrown; either is caught
TextSettles(r) ==
    /\ pc[r] = "text"
    /\ \/ Caught(r, "OpenAI STT failed")
       \/ Caught(r, "body failed")
    /\ UNCHANGED <<clients, keyPresent, tries, req, targetSentence, attempt, promise,
                   responses, calls, provided, scorerArgs, callerVars>>

\* await resp.json() settles: it rejects, or resolves with a reply whose
\* text is returned unless it is missing or empty
JsonSettles(r) ==
    /\ pc[r] = "json"
    /\ \/ /\ Caught(r, "body failed")
          /\ UNCHANGED <<attempt, promise, provided>>
       \/ \E text \in ProviderTexts :
            IF NoText(text)
            THEN /\ Caught(r, "No text in transcription response")
                 /\ UNCHANGED <<attempt, promise, provided>>
            ELSE /\ promise' = [promise EXCEPT ![r] =
                        [state |-> "resolved", value |-> text,
                         error |-> NoErr]]
                 /\ provided' = [provided EXCEPT ![r] = text]
                 /\ outcome' = [outcome EXCEPT ![r] = "text"]
                 /\ pending' = [pending EXCEPT ![r] = @ - 1]
                 /\ attempt' = [attempt EXCEPT ![r] = 0]
                 /\ lastErr' = [lastErr EXCEPT ![r] = NoErr]
                 /\ pc' = [pc EXCEPT ![r] = "returned"]
    /\ UNCHANGED <<clients, keyPresent, tries, req, targetSentence, responses, calls,
                   scorerArgs, callerVars>>

\* the 500 ms timer fires: the next attempt's call, or throw lastErr
TimerFires(r) ==
    /\ pc[r] = "sleep"
    /\ IF LoopGoesOn(attempt[r] + 1, tries)
       THEN /\ attempt' = [attempt EXCEPT ![r] = @ + 1]
            /\ calls' = [calls EXCEPT ![r] = @ + 1]
            /\ pending' = [pending EXCEPT ![r] = @ + 1]
            /\ pc' = [pc EXCEPT ![r] = "fetch"]
            /\ UNCHANGED <<lastErr, promise>>
       ELSE /\ promise' = [promise EXCEPT ![r] =
                   [state |-> "rejected", value |-> Undefined,
                    error |-> lastErr[r]]]
            /\ attempt' = [attempt EXCEPT ![r] = 0]
            /\ lastErr' = [lastErr EXCEPT ![r] = NoErr]
            /\ pc' = [pc EXCEPT ![r] = "thrown"]
            /\ UNCHANGED <<calls, pending>>
    /\ UNCHANGED <<clients, keyPresent, tries, req, targetSentence, responses, outcome,
                   provided, scorerArgs, callerVars>>

\* the handler resumes with the transcript: it scores and responds
HandlerScores(r) ==
    /\ pc[r] = "returned"
    /\ LET transcript == TranscriptOf(r)
           score == simpleTextScore(targetSentence[r], transcript)
       IN  /\ scorerArgs' = [scorerArgs EXCEPT ![r] =
                   Append(@, <<targetSentence[r], transcript>>)]
           /\ responses' = [responses EXCEPT ![r] =
                   Append(@, ScoreResponse(transcript, score))]
    /\ pc' = [pc EXCEPT ![r] = "done"]
    /\ UNCHANGED <<clients, keyPresent, tries, req, targetSentence, attempt, lastErr,
                   promise, calls, pending, outcome, provided, callerVars>>

\* the handler's catch: the error thrown by transcribeWithRetryMem becomes
\* a 500 response; reading err.message of an undefined err (thrown when
\* tries < 1) throws out of the catch and nothing is sent
HandlerCatches(r) ==
    /\ pc[r] = "thrown"
    /\ IF promise[r].error = NoErr
       THEN /\ pc' = [pc EXCEPT ![r] = "crashed"]
            /\ UNCHANGED responses
       ELSE /\ responses' = [responses EXCEPT ![r] =
                   Append(@, FailureResponse(promise[r].error))]
            /\ pc' = [pc EXCEPT ![r] = "done"]
    /\ UNCHANGED <<clients, keyPresent, tries, req, targetSentence, attempt, lastErr,
                   promise, calls, pending, outcome, provided, scorerArgs,
                   callerVars>>

\* the steps of a request's handler after its start
Resume(r) ==
    \/ FetchSettles(r)
    \/ TextSettles(r)
    \/ JsonSettles(r)
    \/ TimerFires(r)
    \/ HandlerScores(r)
    \/ HandlerCatches(r)

Next == \E r \in Requests : Receive(r) \/ Resume(r)

\* the server as started: the key set or not, both endpoints passing 3
Init ==
    /\ CallerIdle
    /\ clients = Requests
    /\ keyPresent \in BOOLEAN
    /\ tries = ScoreTries
    /\ ServerIdle

Spec == Init /\ [][Next]_vars

\* transcribeWithRetryMem called, for one request, with any tries from 1 to
\* MaxTries
RetryInit ==
    /\ CallerIdle
    /\ clients = {1}
    /\ keyPresent = TRUE
    /\ tries \in 1..MaxTries
    /\ ServerIdle

RetrySpec == RetryInit /\ [][Next]_vars

(***************************************************************************)
(* Properties of normalize (NormSpec).                                     *)
(***************************************************************************)
\* only lowercase letters, digits, apostrophes and single spaces, no space
\* at either end
IsNormalForm(s) ==
    /\ \A i \in 1..Len(s) : s[i] \in AllowedChars
    /\ \A i \in 1..(Len(s) - 1) : ~(s[i] = " " /\ s[i + 1] = " ")
    /\ Len(s) > 0 => (s[1] # " " /\ s[Len(s)] # " ")

\* C5: normalize is idempotent: normalize(normalize(s)) = normalize(s) for
\* every string s and for undefined, and normalize(s) holds only lowercase
\* letters, digits, apostrophes and single spaces with no space at either end.
NormalizeIdempotent ==
    called = "normalize twice" =>
        /\ ret[2] = ret[1]
        /\ IsNormalForm(ret[1])

\* a raw string that the first pass changed into a non-empty string
NormalizeIdempotentWitness ==
    /\ called = "normalize twice"
    /\ reference.type = "string"
    /\ ret[1] # reference.val
    /\ ret[1] # <<>>
    /\ ret[2] = ret[1]

(***************************************************************************)
(* Properties of levenshtein (LevSpec).                                    *)
(***************************************************************************)
\* the strings one insertion, deletion or substitution away from s
OneEdit(s) ==
    LET n == Len(s)
    IN  {SubSeq(s, 1, i - 1) \o SubSeq(s, i + 1, n) : i \in 1..n}
        \cup {[s EXCEPT ![i] = c] : i \in 1..n, c \in LevChars}
        \cup {SubSeq(s, 1, i) \o <<c>> \o SubSeq(s, i + 1, n) :
                 i \in 0..n, c \in LevChars}

\* the strings at most k edits away from a string of S, through strings no
\* longer than cap
RECURSIVE WithinEdits(_, _, _)
WithinEdits(S, k, cap) ==
    IF k = 0 THEN S
    ELSE WithinEdits(
             S \cup {x \in UNION {OneEdit(s) : s \in S} : Len(x) <= cap},
             k - 1, cap)

\* the least number of edits that turn a into b.  A shortest edit sequence
\* can substitute first, then delete, then insert, so it need not pass
\* through a string longer than the longer of a and b.
MinEdits(a, b) ==
    LET cap == Max2(Len(a), Len(b))
    IN  CHOOSE k \in 0..(Len(a) + Len(b)) :
            /\ b \in WithinEdits({a}, k, cap)
            /\ k = 0 \/ b \notin WithinEdits({a}, k - 1, cap)

\* C4: levenshtein(a, b) is the minimum number of single-character
\* insertions, deletions and substitutions that transform a into b; it is 0
\* when a = b and max(m, n) when a or b is empty.
LevenshteinIsMinimumEdits ==
    called = "levenshtein" =>
        LET a == reference.val
            b == hypothesis.val
        IN  /\ ret = MinEdits(a, b)
            /\ a = b => ret = 0
            /\ (a = <<>> \/ b = <<>>) => ret = Max2(Len(a), Len(b))

\* two different non-empty strings of which the cheapest transformation
\* mixes a substitution with an insertion or deletion
LevenshteinWitness ==
    /\ called = "levenshtein"
    /\ Len(reference.val) = 3
    /\ Len(hypothesis.val) = 2
    /\ ret = 2

(***************************************************************************)
(* Properties of simpleTextScore and buildTips (ScoreSpec).                *)
(***************************************************************************)
\* C1: for every pair (reference, hypothesis), strings of punctuation only
\* and an undefined or empty hypothesis included, the accuracy is an integer
\* with 0 <= accuracy <= 100.
AccuracyInRange ==
    called = "simpleTextScore" => ret.accuracy \in 0..100

\* a reference of punctuation only scored against an undefined hypothesis
AccuracyInRangeWitness ==
    /\ called = "simpleTextScore"
    /\ hypothesis = Undefined
    /\ reference.val = <<"!", "!">>
    /\ ret.accuracy = 100

\* C2: whenever normalize(reference) = normalize(hypothesis) the accuracy is
\* exactly 100, both normalizing to the empty string included.
EqualNormalizedScores100 ==
    called = "simpleTextScore" =>
        (normalize(reference) = normalize(hypothesis) => ret.accuracy = 100)

\* two different raw strings with the same non-empty normalization
EqualNormalizedWitness ==
    /\ called = "simpleTextScore"
    /\ hypothesis.type = "string"
    /\ reference.val # hypothesis.val
    /\ normalize(reference) = normalize(hypothesis)
    /\ normalize(reference) # <<>>
    /\ ret.accuracy = 100

\* C3 as stated: when exactly one of the two raw input strings is empty and
\* the other is not, the accuracy is below 100 and maxLen is the length of
\* the other string.
RawEmptyScoresBelow100 ==
    (called = "simpleTextScore" /\ hypothesis.type = "string") =>
        /\ (reference.val = <<>> /\ hypothesis.val # <<>>) =>
              (ret.accuracy < 100 /\ ret.maxLen = Len(hypothesis.val))
        /\ (reference.val # <<>> /\ hypothesis.val = <<>>) =>
              (ret.accuracy < 100 /\ ret.maxLen = Len(reference.val))

\* C3 as amended: when exactly one of normalize(reference) and
\* normalize(hypothesis) is empty and the other is not, the accuracy is
\* below 100 and maxLen is the length of the other normalized string.
NormalizedEmptyScoresBelow100 ==
    called = "simpleTextScore" =>
        LET ref == normalize(reference)
            hyp == normalize(hypothesis)
        IN  /\ (ref = <<>> /\ hyp # <<>>) =>
                  (ret.accuracy < 100 /\ ret.maxLen = Len(hyp))
            /\ (ref # <<>> /\ hyp = <<>>) =>
                  (ret.accuracy < 100 /\ ret.maxLen = Len(ref))

\* a non-empty raw reference that normalizes to the empty string, scored
\* against a hypothesis of two characters after normalization
NormalizedEmptyWitness ==
    /\ called = "simpleTextScore"
    /\ reference.val # <<>>
    /\ normalize(reference) = <<>>
    /\ Len(normalize(hypothesis)) = 2
    /\ ret.accuracy < 100

\* the maximal runs of word characters of s
WordsOf(s) ==
    {SubSeq(s, i, j) : <<i, j>> \in
        {p \in (1..Len(s)) \X (1..Len(s)) :
            /\ p[1] <= p[2]
            /\ \A k \in p[1]..p[2] : s[k] \in WordChars
            /\ (p[1] = 1 \/ s[p[1] - 1] \notin WordChars)
            /\ (p[2] = Len(s) \/ s[p[2] + 1] \notin WordChars)}}

\* the tips whose trigger holds, in the fixed order
TriggeredTips(ref, hyp) ==
    LET short == 10 * Len(hyp) < 7 * Len(ref)
        article ==
            WordsOf(ref) \cap Articles # {} /\ WordsOf(hyp) \cap Articles = {}
        preposition ==
            /\ WordsOf(ref) \cap Prepositions # {}
            /\ WordsOf(hyp) \cap Prepositions = {}
    IN  (IF short THEN <<TipReadToEnd>> ELSE <<>>)
            \o (IF article THEN <<TipArticle>> ELSE <<>>)
            \o (IF preposition THEN <<TipPreposition>> ELSE <<>>)

\* C6: buildTips returns exactly the tips whose trigger holds among
\* read-to-the-end, article, preposition, each at most once and in that
\* order, or the single generic tip when no trigger holds; the list has
\* between 1 and 3 entries.
TipsAreTheTriggeredOnes ==
    called = "simpleTextScore" =>
        LET want == TriggeredTips(ret.ref, ret.hyp)
        IN  /\ ret.tips = (IF want = <<>> THEN <<TipGeneric>> ELSE want)
            /\ Len(ret.tips) \in 1..3
            /\ \A i, j \in 1..Len(ret.tips) :
                  ret.tips[i] = ret.tips[j] => i = j

\* all three triggers hold at once
TipsWitness ==
    /\ called = "simpleTextScore"
    /\ ret.tips = <<TipReadToEnd, TipArticle, TipPreposition>>

(***************************************************************************)
(* Properties of the /speech/score handler (Spec) and of                   *)
(* transcribeWithRetryMem (RetrySpec).                                     *)
(***************************************************************************)
NoTextKind == "No text in transcription response"

FailureKinds == {"fetch failed", "OpenAI STT failed", "body failed", NoTextKind}

\* the target sentence the handler derives from the request r itself
OwnTarget(r) == Str(OrEmpty(req[r].target))

\* C7: under any interleaving of concurrently served requests, the accuracy
\* and tips of each ok response are those simpleTextScore returns for that
\* request's own target sentence and the transcript the provider returned
\* for that request.
ResponseDependsOnOwnRequestOnly ==
    \A r \in Requests : \A i \in 1..Len(responses[r]) :
        responses[r][i].ok = "true" =>
            LET own == simpleTextScore(OwnTarget(r), provided[r])
            IN  /\ responses[r][i].accuracy = own.accuracy
                /\ responses[r][i].tips = own.tips

\* request 1 has been answered with its score while request 2, served
\* meanwhile, holds a different transcript that is yet to be scored
InterleavedScoringWitness ==
    /\ Len(responses[1]) = 1
    /\ responses[1][1].ok = "true"
    /\ responses[1][1].accuracy = 100
    /\ pc[2] = "returned"
    /\ promise[2].value # responses[1][1].transcript

\* the handler of r can take a step: it is about to score (HandlerScores has
\* no other condition), or one of its other steps is enabled
HasNextStep(r) ==
    \/ pc[r] = "returned"
    \/ ENABLED (\/ FetchSettles(r)
                \/ TextSettles(r)
                \/ JsonSettles(r)
                \/ TimerFires(r)
                \/ HandlerCatches(r))

\* C8: every request gets exactly one response; an ok response is sent only
\* after the provider returned a transcript for the request and the scorer
\* ran on (target, transcript), and carries that transcript with the
\* scorer's accuracy and tips; a request without audio, or served without
\* the API key, is answered 400 resp. 500 without a call to the provider.
\* (Exactly one response: never two, one once the handler has ended, and a
\* handler that has not ended always has its next step to take.)
OneResponsePerRequest ==
    \A r \in Requests :
        /\ Len(responses[r]) <= 1
        /\ pc[r] = "done" <=> Len(responses[r]) = 1
        /\ pc[r] # "crashed"
        /\ pc[r] \notin {"none", "done"} => HasNextStep(r)
        /\ (Len(responses[r]) = 1 /\ responses[r][1].ok = "true") =>
              /\ outcome[r] = "text"
              /\ provided[r].type = "string"
              /\ scorerArgs[r] = <<<<OwnTarget(r), provided[r]>>>>
              /\ responses[r][1].status = 200
              /\ responses[r][1].transcript = provided[r]
              /\ responses[r][1].accuracy =
                    simpleTextScore(OwnTarget(r), provided[r]).accuracy
              /\ responses[r][1].tips =
                    simpleTextScore(OwnTarget(r), provided[r]).tips
        /\ (pc[r] # "none" /\ ~req[r].hasFile) =>
              /\ calls[r] = 0
              /\ Len(responses[r]) = 1
              /\ responses[r][1].status = 400
              /\ responses[r][1].ok # "true"
        /\ (pc[r] # "none" /\ req[r].hasFile /\ ~keyPresent) =>
              /\ calls[r] = 0
              /\ Len(responses[r]) = 1
              /\ responses[r][1].status = 500
              /\ responses[r][1].ok # "true"

\* request 1 answered with the white-space transcript the provider returned
\* on the third call, request 2 answered 400 without any call
OneResponseWitness ==
    /\ pc[1] = "done"
    /\ responses[1][1].ok = "true"
    /\ responses[1][1].transcript = Str(<<" ">>)
    /\ calls[1] = 3
    /\ pc[2] = "done"
    /\ responses[2][1].status = 400
    /\ calls[2] = 0

\* what holds of transcribeWithRetryMem in every state
RetryInvariant ==
    \A r \in Requests :
        /\ calls[r] <= tries
        /\ pending[r] <= 1
        /\ promise[r].state = "resolved" =>
              (outcome[r] = "text" /\ promise[r].value = provided[r])
        /\ promise[r].state = "rejected" =>
              /\ calls[r] = tries
              /\ outcome[r] \in FailureKinds
              /\ promise[r].error = [attempt |-> tries, kind |-> outcome[r]]
              /\ pc[r] = "done" =>
                    /\ Len(responses[r]) = 1
                    /\ responses[r][1].status = 500
                    /\ responses[r][1].ok = "false"
                    /\ responses[r][1].error = promise[r].error

\* a call to the provider starts only when none is pending and no attempt
\* has succeeded
CallsOneAfterAnother ==
    \A r \in Requests :
        calls'[r] # calls[r] =>
            /\ calls'[r] = calls[r] + 1
            /\ pending[r] = 0
            /\ outcome[r] # "text"
            /\ promise[r].state = "pending"

\* C9: transcribeWithRetryMem with tries >= 1 makes at most tries calls to
\* the provider, one after another; none after the first attempt that
\* succeeds, whose text it returns; if all attempts fail it throws the error
\* of the last attempt, which the endpoint turns into a 500 response.
RetryMakesAtMostTriesCalls == []RetryInvariant /\ [][CallsOneAfterAnother]_vars

\* three attempts failed, the last for want of a text, and the request was
\* answered 500
RetryExhaustedWitness ==
    /\ tries = 3
    /\ calls[1] = 3
    /\ promise[1].state = "rejected"
    /\ promise[1].error = [attempt |-> 3, kind |-> NoTextKind]
    /\ pc[1] = "done"
    /\ responses[1][1].status = 500

\* C10: the scorer is only ever invoked with a non-empty transcript; a reply
\* whose text is empty or missing counts as a failed attempt and is retried,
\* and a request whose last attempt ends so is answered 500 without
\* simpleTextScore having been called for it.
ScorerNeverGetsEmptyTranscript ==
    \A r \in Requests :
        /\ \A i \in 1..Len(scorerArgs[r]) :
              /\ scorerArgs[r][i][2].type = "string"
              /\ scorerArgs[r][i][2].val # <<>>
        /\ \A i \in 1..Len(responses[r]) :
              responses[r][i].ok = "true" =>
                  responses[r][i].transcript.val # <<>>
        /\ outcome[r] = NoTextKind =>
              /\ promise[r].state # "resolved"
              /\ scorerArgs[r] = <<>>
              /\ pc[r] \in {"sleep", "fetch", "text", "json", "thrown", "done"}
              /\ (pc[r] = "sleep" /\ attempt[r] < tries) =>
                    ENABLED (TimerFires(r) /\ calls'[r] = calls[r] + 1)
              /\ pc[r] = "done" =>
                    /\ Len(responses[r]) = 1
                    /\ responses[r][1].status = 500
                    /\ responses[r][1].ok = "false"
                    /\ responses[r][1].error.kind = NoTextKind

\* every one of the three attempts got a reply without text and the request
\* was answered 500, the scorer never called
EmptyTranscriptWitness ==
    /\ pc[1] = "done"
    /\ outcome[1] = NoTextKind
    /\ calls[1] = 3
    /\ scorerArgs[1] = <<>>
    /\ responses[1][1].status = 500

=============================================================================
